---- MODULE Spec2Model ----
(***************************************************************************)
(* A state-machine model of train.py: the bootstrap block, train_net (the  *)
(* two dataset constructions, the split, the epoch / batch loop, the       *)
(* per-epoch log, the periodic checkpoint) and the KeyboardInterrupt       *)
(* handler around the call of train_net.                                   *)
(***************************************************************************)
EXTENDS Integers, Sequences, FiniteSets, TLC

\* ---------------------------------------------------------------- bounds
MaxEpochs == 2
MaxTrain == 3
MaxBatchSize == 2

\* ------------------------------------------------------ program constants
\* UNet(n_channels=3, n_classes=2)
n_channels == 3

\* ------------------------------------------------------------ input sets
\* channel counts an image file can have (grayscale, RGB)
ChannelCounts == {1, 3}
\* values loss.item() can take in a batch (abstract units)
LossValues == {0, 1}
\* values of the learning_rate argument (abstract units)
LearningRates == {10, 20}
\* the directory of training crops: one channel count per sample
Directories == UNION {[1..n -> ChannelCounts] : n \in 1..MaxTrain}
\* outcomes of one dataset constructor call
Outcomes == {"ok", "AssertionError", "RuntimeError", "OSError"}
Splits == {"training", "testing"}

VARIABLES
    pc,               \* position of the process
    epochs,           \* argument of train_net
    batch_size,       \* argument of train_net
    learning_rate,    \* argument of train_net
    save_checkpoint,  \* argument of train_net
    dir_img_training, \* the training samples on disk
    dataset,          \* strategy backing dataset_training / dataset_testing
    attempts,         \* constructor calls made, per dataset and strategy
    raised,           \* exception caught by the except clause in progress
    train_set,        \* order of the sample indices after random_split
    n_train,
    lr,               \* optimizer.param_groups[0]['lr']
    scheduler,        \* [built, steps] of the ReduceLROnPlateau object
    global_step,
    epoch,            \* loop variable of the epoch loop, -1 before the loop
    started,          \* epoch indices whose body was entered, in order
    batch_idx,        \* batches of the current epoch already processed
    epoch_loss,
    pbar,             \* progress counter of the current epoch
    seen,             \* sample indices processed in the current epoch
    forward_passes,   \* net(images) calls in the current epoch
    optimizer_steps,  \* grad_scaler.step(optimizer) calls in the current epoch
    log,              \* experiment.log entries
    writes,           \* torch.save calls, in order
    signals,          \* KeyboardInterrupts delivered so far
    error,            \* exception that ended the process, "none" otherwise
    exit_status       \* -1 while running

vars == <<pc, epochs, batch_size, learning_rate, save_checkpoint,
          dir_img_training, dataset, attempts, raised, train_set, n_train, lr,
          scheduler, global_step, epoch, started, batch_idx, epoch_loss,
          pbar, seen, forward_passes, optimizer_steps, log, writes, signals,
          error, exit_status>>

\* the arguments and the disk content never change
params == <<epochs, batch_size, learning_rate, save_checkpoint,
            dir_img_training>>
\* state of the construction phase
built == <<dataset, attempts, raised, train_set, n_train>>
\* state of the optimizer and its scheduler
optim == <<lr, scheduler>>
\* state of the epoch in progress
inepoch == <<batch_idx, epoch_loss, pbar, seen, forward_passes,
             optimizer_steps>>

\* ---------------------------------------------------------------- helpers
Range(s) == {s[i] : i \in 1..Len(s)}

Orders(n) == {p \in [1..n -> 1..n] : Range(p) = 1..n}

Min(a, b) == IF a < b THEN a ELSE b

\* file names
CheckpointFile(e) == [name |-> "checkpoint_epoch_224x224_", number |-> e + 1]

\* the interrupt checkpoint named after the epoch, as the periodic ones are
InterruptedFile_Epoch == [name |-> "INTERRUPTED.pth", number |-> epoch + 1]

InterruptedFile == [name |-> "INTERRUPTED.pth", number |-> 0]

NoError == [type |-> "none", at |-> "none"]

Init ==
    /\ pc = "boot"
    /\ epochs \in -1..MaxEpochs
    /\ batch_size \in 1..MaxBatchSize
    /\ learning_rate \in LearningRates
    /\ save_checkpoint \in BOOLEAN
    /\ dir_img_training \in Directories
    /\ dataset = [s \in Splits |-> "none"]
    /\ attempts = [s \in Splits |-> [CarvanaDataset |-> 0, BasicDataset |-> 0]]
    /\ raised = "none"
    /\ train_set = <<>>
    /\ n_train = 0
    /\ lr = 0
    /\ scheduler = [built |-> 0, steps |-> 0]
    /\ global_step = 0
    /\ epoch = -1
    /\ started = <<>>
    /\ batch_idx = 0
    /\ epoch_loss = 0
    /\ pbar = 0
    /\ seen = <<>>
    /\ forward_passes = 0
    /\ optimizer_steps = 0
    /\ log = <<>>
    /\ writes = <<>>
    /\ signals = <<>>
    /\ error = NoError
    /\ exit_status = -1

\* a try block placed around the epoch loop only
InTry_LoopOnly(p) == p \in {"epoch_head", "batches", "ckpt"}

\* the positions inside the try block around train_net(...)
InTry(p) == p \in {"ds_training", "except_training", "ds_testing",
                   "except_testing", "setup", "epoch_head", "batches", "ckpt"}

\* "except (KeyboardInterrupt, AssertionError):" in place of the clause
HandlerCatches_Assertion(e) == e \in {"KeyboardInterrupt", "AssertionError"}

\* except KeyboardInterrupt:
HandlerCatches(e) == e = "KeyboardInterrupt"

\* the status of a process ended by an uncaught exception
ExitStatus(e) == IF e = "KeyboardInterrupt" THEN 130 ELSE 1

\* an exception raised at the current position: the except clause of the
\* bootstrap block takes it if it matches, otherwise the process ends
Raise(e) ==
    IF InTry(pc) /\ HandlerCatches(e)
    THEN /\ pc' = "handler"
         /\ UNCHANGED <<error, exit_status>>
    ELSE /\ pc' = "exited"
         /\ error' = [type |-> e, at |-> pc]
         /\ exit_status' = ExitStatus(e)

\* get_args, the network construction and net.to(device), before the try
Bootstrap ==
    /\ pc = "boot"
    /\ pc' = "ds_training"
    /\ UNCHANGED <<params, built, optim, global_step, epoch, started, inepoch,
                   log, writes, signals, error, exit_status>>

\* a bare "except:" in place of the two listed exception types
Caught_Any(outcome) == outcome # "ok"

\* except (AssertionError, RuntimeError):
Caught(outcome) == outcome \in {"AssertionError", "RuntimeError"}

\* try: dataset = CarvanaDataset(...), for dataset_training and for
\* dataset_testing; an exception leaves the try block
TryCarvana(s, next) ==
    /\ pc = "ds_" \o s
    /\ attempts' = [attempts EXCEPT ![s].CarvanaDataset = @ + 1]
    /\ \E c \in Outcomes :
        IF c = "ok"
        THEN /\ dataset' = [dataset EXCEPT ![s] = "CarvanaDataset"]
             /\ pc' = next
             /\ UNCHANGED <<raised, error, exit_status>>
        ELSE IF Caught(c)
        THEN /\ raised' = c
             /\ pc' = "except_" \o s
             /\ UNCHANGED <<dataset, error, exit_status>>
        ELSE /\ Raise(c)
             /\ UNCHANGED <<dataset, raised>>
    /\ UNCHANGED <<params, train_set, n_train, optim, global_step, epoch,
                   started, inepoch, log, writes, signals>>

\* except (AssertionError, RuntimeError): dataset = BasicDataset(...)
ExceptBasic(s, next) ==
    /\ pc = "except_" \o s
    /\ attempts' = [attempts EXCEPT ![s].BasicDataset = @ + 1]
    /\ raised' = "none"
    /\ \E b \in Outcomes :
        IF b = "ok"
        THEN /\ dataset' = [dataset EXCEPT ![s] = "BasicDataset"]
             /\ pc' = next
             /\ UNCHANGED <<error, exit_status>>
        ELSE /\ Raise(b)
             /\ UNCHANGED dataset
    /\ UNCHANGED <<params, train_set, n_train, optim, global_step, epoch,
                   started, inepoch, log, writes, signals>>

CreateTraining ==
    \/ TryCarvana("training", "ds_testing")
    \/ ExceptBasic("training", "ds_testing")

CreateTesting ==
    \/ TryCarvana("testing", "setup")
    \/ ExceptBasic("testing", "setup")

\* the split, the loaders, the tracker session, the optimizer, the
\* scheduler and global_step = 0
Setup ==
    /\ pc = "setup"
    /\ n_train' = Len(dir_img_training)
    /\ train_set' \in Orders(Len(dir_img_training))
    /\ lr' = learning_rate
    /\ scheduler' = [built |-> scheduler.built + 1, steps |-> 0]
    /\ global_step' = 0
    /\ pc' = "epoch_head"
    /\ UNCHANGED <<params, dataset, attempts, raised, epoch, started, inepoch,
                   log, writes, signals, error, exit_status>>

\* for epoch in range(epochs): net.train(); epoch_loss = 0; with tqdm(...)
EpochHead ==
    /\ pc = "epoch_head"
    /\ IF epoch + 1 < epochs
       THEN /\ epoch' = epoch + 1
            /\ started' = Append(started, epoch + 1)
            /\ epoch_loss' = 0
            /\ pbar' = 0
            /\ batch_idx' = 0
            /\ seen' = <<>>
            /\ forward_passes' = 0
            /\ optimizer_steps' = 0
            /\ pc' = "batches"
       ELSE /\ pc' = "done"
            /\ UNCHANGED <<epoch, started, inepoch>>
    /\ UNCHANGED <<params, built, optim, global_step, log, writes, signals,
                   error, exit_status>>

\* the training loader built with drop_last=True, as the validation one is
TrainBatches_DropLast(n, bs) == n \div bs

\* DataLoader(train_set, shuffle=False, batch_size=batch_size): the number
\* of batches of one epoch, the trailing under-full batch included
TrainBatches(n, bs) == (n + bs - 1) \div bs

\* the sample indices of the b-th batch (1-based) of an epoch
BatchIndices(b) ==
    SubSeq(train_set, (b - 1) * batch_size + 1, Min(b * batch_size, n_train))

\* the channel counts of the images of the b-th batch
BatchChannels(b) == {dir_img_training[i] : i \in Range(BatchIndices(b))}

\* one iteration of "for batch in train_loader"
BatchStep ==
    /\ pc = "batches"
    /\ batch_idx < TrainBatches(n_train, batch_size)
    /\ LET b == batch_idx + 1
           idx == BatchIndices(b)
       IN  IF Cardinality(BatchChannels(b)) > 1
           THEN \* the collate function cannot stack images of different shapes
                /\ Raise("RuntimeError")
                /\ UNCHANGED <<inepoch>>
           ELSE IF BatchChannels(b) # {n_channels}
           THEN \* assert images.shape[1] == net.n_channels
                /\ Raise("AssertionError")
                /\ UNCHANGED <<inepoch>>
           ELSE \E loss \in LossValues :
                /\ forward_passes' = forward_passes + 1
                /\ optimizer_steps' = optimizer_steps + 1
                /\ epoch_loss' = epoch_loss + loss
                /\ pbar' = pbar + Len(idx)
                /\ seen' = seen \o idx
                /\ batch_idx' = b
                /\ UNCHANGED <<pc, error, exit_status>>
    /\ UNCHANGED <<params, built, optim, global_step, epoch, started, log,
                   writes, signals>>

\* 'train loss': epoch_loss/(n_train//batch_size), as a fraction
TrainLoss(el, n, bs) == [num |-> el, den |-> n \div bs]

\* the step counted in batches, not in epochs
NextStep_PerBatch(g) == g + TrainBatches(n_train, batch_size)

\* global_step += 1
NextStep(g) == g + 1

\* after the batch loop: global_step += 1; experiment.log({...})
EpochLog ==
    /\ pc = "batches"
    /\ batch_idx = TrainBatches(n_train, batch_size)
    /\ global_step' = NextStep(global_step)
    /\ IF n_train \div batch_size = 0
       THEN /\ Raise("ZeroDivisionError")
            /\ UNCHANGED log
       ELSE /\ log' = Append(log, [train_loss |-> TrainLoss(epoch_loss, n_train, batch_size),
                                   step |-> NextStep(global_step),
                                   epoch |-> epoch])
            /\ pc' = "ckpt"
            /\ UNCHANGED <<error, exit_status>>
    /\ UNCHANGED <<params, built, optim, epoch, started, inepoch, writes,
                   signals>>

\* the evaluation round with its comment marks removed: every second epoch
\* scheduler.step(val_score), which may lower the learning rate
EvaluationRound_Enabled ==
    IF epoch % 2 = 0
    THEN /\ scheduler' = [scheduler EXCEPT !.steps = @ + 1]
         /\ lr' \in {lr, lr \div 10}
    ELSE UNCHANGED <<lr, scheduler>>

\* the evaluation round is commented out: no evaluate(), no scheduler.step()
EvaluationRound == UNCHANGED <<lr, scheduler>>

\* the checkpoint made to depend on the save_checkpoint argument
ShouldCheckpoint_Flag(e, save) == save /\ e % 2 = 0

\* if (epoch%2 == 0):
ShouldCheckpoint(e, save) == e % 2 = 0

\* the evaluation round and the periodic checkpoint that end an epoch
EpochEnd ==
    /\ pc = "ckpt"
    /\ EvaluationRound
    /\ writes' = IF ShouldCheckpoint(epoch, save_checkpoint)
                 THEN Append(writes, CheckpointFile(epoch))
                 ELSE writes
    /\ pc' = "epoch_head"
    /\ UNCHANGED <<params, built, global_step, epoch, started, inepoch, log,
                   signals, error, exit_status>>

\* train_net returned: the script ends
Finish ==
    /\ pc = "done"
    /\ pc' = "exited"
    /\ exit_status' = 0
    /\ UNCHANGED <<params, built, optim, global_step, epoch, started, inepoch,
                   log, writes, signals, error>>

\* a KeyboardInterrupt is raised wherever the process is
KeyboardInterrupt ==
    /\ pc # "exited"
    /\ signals' = Append(signals, [at |-> pc, k |-> batch_idx,
                                   nwrites |-> Len(writes)])
    /\ Raise("KeyboardInterrupt")
    /\ IF pc = "handler"
       THEN \* torch.save was cut short: the file may or may not exist
            writes' \in {writes, Append(writes, InterruptedFile)}
       ELSE UNCHANGED writes
    /\ UNCHANGED <<params, built, optim, global_step, epoch, started, inepoch,
                   log>>

\* sys.exit(0)
HandlerExitStatus == 0

\* except KeyboardInterrupt: torch.save(..., 'INTERRUPTED.pth'); sys.exit(0)
HandleInterrupt ==
    /\ pc = "handler"
    /\ writes' = Append(writes, InterruptedFile)
    /\ pc' = "exited"
    /\ exit_status' = HandlerExitStatus
    /\ UNCHANGED <<params, built, optim, global_step, epoch, started, inepoch,
                   log, signals, error>>

Next ==
    \/ Bootstrap
    \/ CreateTraining
    \/ CreateTesting
    \/ Setup
    \/ EpochHead
    \/ BatchStep
    \/ EpochLog
    \/ EpochEnd
    \/ Finish
    \/ KeyboardInterrupt
    \/ HandleInterrupt

\* -------------------------------------------------------------- properties
Max0(n) == IF n > 0 THEN n ELSE 0

\* the least m with m * bs >= n
Ceil(n, bs) == CHOOSE m \in 0..n : m * bs >= n /\ (m - 1) * bs < n

\* the positions of train_net after the construction phase
AfterSetup == {"epoch_head", "batches", "ckpt", "done"}

\* C1: the step that ends the epoch with 0-based index e appends the file
\* numbered e + 1 to the files written when e is even and writes nothing
\* when e is odd, whatever save_checkpoint is.
C1_CheckpointOnEvenEpochs ==
    [][(pc = "ckpt" /\ pc' = "epoch_head") =>
         writes' = IF epoch % 2 = 0
                   THEN Append(writes, [name |-> "checkpoint_epoch_224x224_",
                                        number |-> epoch + 1])
                   ELSE writes]_vars

\* epoch 0 wrote its checkpoint and epoch 1 ended without one, in a run
\* called with save_checkpoint = False
C1_Witness ==
    /\ pc = "epoch_head"
    /\ epoch = 1
    /\ ~save_checkpoint
    /\ writes = <<[name |-> "checkpoint_epoch_224x224_", number |-> 1]>>

\* C2: a run ended by one cancellation that arrived inside an epoch, after
\* any number k of batches, has written since then exactly one file, named
\* INTERRUPTED.pth.
C2_OneInterruptCheckpoint ==
    (pc = "exited" /\ Len(signals) = 1 /\ signals[1].at \in {"batches", "ckpt"})
        => SubSeq(writes, signals[1].nwrites + 1, Len(writes))
               = <<[name |-> "INTERRUPTED.pth", number |-> 0]>>

\* cancelled in the second epoch after two batches, one periodic checkpoint
\* already on disk
C2_Witness ==
    /\ pc = "exited"
    /\ Len(signals) = 1
    /\ signals[1].at = "batches"
    /\ signals[1].k = 2
    /\ signals[1].nwrites = 1
    /\ Len(writes) = 2

\* C3 as stated: every run that received a cancellation, in whatever state,
\* ends with status 0 and with the interrupt checkpoint as its last write.
C3_AnyStateSaves ==
    (pc = "exited" /\ signals # <<>>)
        => /\ exit_status = 0
           /\ writes # <<>>
           /\ writes[Len(writes)] = [name |-> "INTERRUPTED.pth", number |-> 0]

\* C3 amended: a cancellation that arrives while train_net runs passes
\* control to the handler with nothing written yet, and the handler's only
\* step writes the interrupt checkpoint and exits with status 0; a
\* cancellation that arrives before train_net is called, after it returned
\* or while the handler runs ends the process with a non-zero status.
C3_SavesInsideTrainNet ==
    [][/\ (signals' # signals /\ pc \in {"ds_training", "except_training",
                                         "ds_testing", "except_testing",
                                         "setup", "epoch_head", "batches",
                                         "ckpt"})
            => (pc' = "handler" /\ writes' = writes /\ exit_status' = -1)
       /\ (signals' # signals /\ pc \in {"boot", "done", "handler"})
            => (pc' = "exited" /\ exit_status' > 0)
       /\ (signals' = signals /\ pc = "handler")
            => /\ pc' = "exited"
               /\ exit_status' = 0
               /\ writes' = Append(writes, [name |-> "INTERRUPTED.pth",
                                            number |-> 0])]_vars

\* cancelled while the testing dataset was being built, saved and exited 0
C3_Witness ==
    /\ pc = "exited"
    /\ exit_status = 0
    /\ Len(signals) = 1
    /\ signals[1].at = "ds_testing"
    /\ writes = <<[name |-> "INTERRUPTED.pth", number |-> 0]>>

\* C4: when the next batch does not have n_channels channels, the step that
\* takes it ends the process with a non-zero status: no forward pass, no
\* optimizer step, no loss accumulated, nothing logged or written, the
\* epoch has neither a log entry nor a checkpoint, and no INTERRUPTED.pth
\* exists.
C4_MismatchAborts ==
    [][(/\ pc = "batches"
        /\ batch_idx < TrainBatches(n_train, batch_size)
        /\ BatchChannels(batch_idx + 1) # {n_channels}
        /\ signals' = signals)
         => /\ pc' = "exited"
            /\ exit_status' > 0
            /\ forward_passes' = forward_passes
            /\ optimizer_steps' = optimizer_steps
            /\ epoch_loss' = epoch_loss
            /\ batch_idx' = batch_idx
            /\ log' = log
            /\ writes' = writes
            /\ \A i \in 1..Len(log') : log'[i].epoch # epoch
            /\ \A i \in 1..Len(writes') :
                   /\ writes'[i].name # "INTERRUPTED.pth"
                   /\ writes'[i].number # epoch + 1]_vars

\* the second batch of the first epoch had the wrong channel count: one
\* forward pass was made, then the assertion ended the run
C4_Witness ==
    /\ pc = "exited"
    /\ error = [type |-> "AssertionError", at |-> "batches"]
    /\ batch_idx = 1
    /\ forward_passes = 1
    /\ exit_status = 1
    /\ signals = <<>>

\* C5 as stated: every epoch whose batch loop ran to its end (global_step
\* counts them, it is advanced right after the loop) has a log entry whose
\* train loss is a fraction over floor(n_train / batch_size) >= 1, and the
\* entry just logged carries the sum of the epoch's batch losses.
C5_LoggedMeanLoss ==
    /\ \A e \in 0..(global_step - 1) :
           \E i \in 1..Len(log) :
               /\ log[i].epoch = e
               /\ log[i].train_loss.den = n_train \div batch_size
               /\ log[i].train_loss.den >= 1
    /\ pc = "ckpt" => log[Len(log)].train_loss.num = epoch_loss

\* C6 as stated: a run without cancellation and without a failure of the
\* dataset constructors, of the collation or of the channel check exits
\* with status 0 after starting exactly the epochs 0..E-1 in order, and
\* with nothing logged or written when E <= 0.
C6_RunsAllEpochs ==
    (/\ pc = "exited"
     /\ signals = <<>>
     /\ error.type \notin {"AssertionError", "RuntimeError", "OSError"})
        => /\ exit_status = 0
           /\ started = [i \in 1..Max0(epochs) |-> i - 1]
           /\ Len(log) = Max0(epochs)
           /\ epochs <= 0 => (log = <<>> /\ writes = <<>>)

\* C7: global_step starts at 0 and never decreases; a batch step leaves it
\* alone; the step that completes epoch e adds 1 and logs step = e + 1 and
\* epoch = e; when the loop is left after E >= 0 epochs it equals E.
C7_StepPerEpoch ==
    /\ global_step = 0
    /\ [][/\ global_step' >= global_step
          /\ (pc = "batches" /\ batch_idx' # batch_idx)
               => global_step' = global_step
          /\ (pc = "batches" /\ pc' = "ckpt")
               => /\ global_step' = global_step + 1
                  /\ global_step' = epoch + 1
                  /\ Len(log') = Len(log) + 1
                  /\ log'[Len(log')].step = epoch + 1
                  /\ log'[Len(log')].epoch = epoch
          /\ pc' = "done" => global_step' = Max0(epochs)]_vars

\* a full run of two epochs of several batches each
C7_Witness ==
    /\ pc = "done"
    /\ epochs = 2
    /\ global_step = 2
    /\ batch_idx = 3
    /\ log[1].step = 1 /\ log[2].step = 2

\* C8: for each dataset, CarvanaDataset is called first and once,
\* BasicDataset at most once and only from the except clause that caught an
\* AssertionError or a RuntimeError of CarvanaDataset; a built dataset is
\* backed by the one strategy whose call succeeded, and once it is built
\* no constructor is called for it again.
C8_FallbackNoRetry ==
    /\ [](\A s \in Splits :
            /\ attempts[s].CarvanaDataset <= 1
            /\ attempts[s].BasicDataset <= attempts[s].CarvanaDataset
            /\ dataset[s] = "CarvanaDataset"
                 => attempts[s] = [CarvanaDataset |-> 1, BasicDataset |-> 0]
            /\ dataset[s] = "BasicDataset"
                 => attempts[s] = [CarvanaDataset |-> 1, BasicDataset |-> 1]
            /\ pc \in AfterSetup => dataset[s] # "none")
    /\ [][\A s \in Splits :
            /\ attempts'[s].CarvanaDataset # attempts[s].CarvanaDataset
                 => attempts[s] = [CarvanaDataset |-> 0, BasicDataset |-> 0]
            /\ attempts'[s].BasicDataset # attempts[s].BasicDataset
                 => /\ raised \in {"AssertionError", "RuntimeError"}
                    /\ attempts[s] = [CarvanaDataset |-> 1, BasicDataset |-> 0]
            /\ dataset[s] # "none"
                 => (dataset'[s] = dataset[s] /\ attempts'[s] = attempts[s])]_vars

\* the training set fell back to BasicDataset, the testing set did not, and
\* the run went through all its epochs
C8_Witness ==
    /\ pc = "done"
    /\ epochs = 2
    /\ dataset = [training |-> "BasicDataset", testing |-> "CarvanaDataset"]
    /\ attempts["training"] = [CarvanaDataset |-> 1, BasicDataset |-> 1]
    /\ attempts["testing"] = [CarvanaDataset |-> 1, BasicDataset |-> 0]

\* C9: the scheduler is built at most once and never stepped, and once the
\* optimizer exists its learning rate is the learning_rate argument.
C9_LearningRateConstant ==
    /\ scheduler.built <= 1
    /\ scheduler.steps = 0
    /\ scheduler.built = 1 => lr = learning_rate
    /\ pc \in AfterSetup => scheduler.built = 1

\* two epochs of batch steps and a checkpoint write later, the rate is
\* still the configured one
C9_Witness ==
    /\ pc = "done"
    /\ epochs = 2
    /\ learning_rate = 20
    /\ lr = 20
    /\ optimizer_steps > 1
    /\ Len(writes) = 1

\* C10: inside an epoch there is one optimizer step per batch taken and the
\* progress counter is the number of samples taken, in the order of
\* train_set; an epoch whose batch loop ended has made
\* ceil(n_train / batch_size) optimizer steps and has taken every sample
\* once, in the order of train_set.
C10_EverySampleOncePerEpoch ==
    /\ pc \in {"batches", "ckpt"}
         => /\ optimizer_steps = batch_idx
            /\ pbar = Len(seen)
            /\ seen = SubSeq(train_set, 1, Len(seen))
    /\ pc = "ckpt"
         => /\ optimizer_steps = Ceil(n_train, batch_size)
            /\ pbar = n_train
            /\ seen = train_set
            /\ Range(seen) = 1..n_train
            /\ Len(seen) = n_train

\* the second epoch of three samples in batches of two, in an order that
\* is not the directory's: a full batch and an under-full one
C10_Witness ==
    /\ pc = "ckpt"
    /\ epoch = 1
    /\ n_train = 3
    /\ batch_size = 2
    /\ optimizer_steps = 2
    /\ seen = <<3, 1, 2>>

Spec == Init /\ [][Next]_vars
====
